---- MODULE Spec2Model ----
(***************************************************************************)
(* A model of the generative-agents demo: the LLMClient request queue      *)
(* (src/llm.js), the World and Agent classes (src/world.js) and the tick    *)
(* orchestrator with its button handlers (app.js, kept as unnamed/part_001).*)
(*                                                                         *)
(* JavaScript runs one macrotask at a time and drains every microtask      *)
(* before the next one, so in the orchestrator specification an action is  *)
(* one macrotask: a button click, a timer firing or the engine settling a  *)
(* call, each followed by every continuation it wakes, up to the next      *)
(* await that has to wait for a timer or for the engine.  The gateway      *)
(* specification SpecLLM is finer: there every promise reaction is a step  *)
(* of its own and the callers are arbitrary.                               *)
(***************************************************************************)
EXTENDS Integers, Sequences, FiniteSets, TLC

VARIABLES
    \* ---- LLMClient (llm.js)
    tasks,      \* the promise chain built by chat(): one record per task
    queue,      \* this._queue: index in tasks of the promise it holds, 0 = the initial resolved promise
    \* ---- app.js globals
    running,    \* let running
    simTime,    \* let simTime, in minutes after 2023-02-13T08:00
    world,      \* let world: index in worlds of the current World, 0 = null
    agents,     \* let agents: index in rosters of the current array, 0 = []
    \* ---- the heap
    worlds,     \* every World made so far
    rosters,    \* every agents array made so far
    idCounter,  \* let _idCounter of world.js
    \* ---- the async activations of loadModel and of the button handlers
    acts,
    last,       \* history: the owner, the kind and the outcome of the engine call settled last
    \* ---- arbitrary callers of chat(), used by SpecLLM only
    calls,      \* caller -> [st, promise, val]
    started,    \* history: the tasks in the order engine.chat.completions.create was called
    \* ---- one MemoryStream and a caller of its methods, used by SpecMemory only
    stream,     \* [records, df]: this.records and this._df
    call        \* history: the last call of add or retrieve, the stream before it, what it got and returned

llmVars == <<tasks, queue>>
callerVars == <<calls, started>>
memVars == <<stream, call>>
appVars == <<running, simTime, world, agents, worlds, rosters, idCounter, acts, last>>

\* ------------------------------------------------------------------ bounds
MaxCallers == 3

Callers == 1..MaxCallers

\* ------------------------------------------------------------------ LLMClient
NoRes == [for |-> 0, out |-> "none"]

Settled(ts, i) == IF i = 0 THEN TRUE ELSE ts[i].st \in {"fulfilled", "rejected"}

\* (a chat() that runs its task at once instead of chaining it)
ChatPredUnchained(q) == 0

\* this._queue.then(task, task): the new task is chained on the promise this._queue holds
ChatPred(q) == q

\* (a chat() that returns the promise this._queue held before the assignment)
ChatReturnStale(q) == q - 1

\* return this._queue, read right after the assignment: the caller gets its own task's promise
ChatReturn(q) == q

\* chat(): const task = ...; this._queue = this._queue.then(task, task)
ChatAppend(ts, q, owner, kind) ==
    Append(ts, [owner |-> owner, kind |-> kind, st |-> "queued", pred |-> ChatPred(q), res |-> NoRes])

\* (a then(task) without the second argument: the task runs only when the promise it is
\* chained on was fulfilled)
ThenReadyFulfilled(ts, i) ==
    ts[i].st = "queued" /\ (IF ts[i].pred = 0 THEN TRUE ELSE ts[ts[i].pred].st = "fulfilled")

\* then(task, task) runs the task once the promise it is chained on has settled,
\* whether that promise was fulfilled or rejected
ThenReady(ts, i) == ts[i].st = "queued" /\ Settled(ts, ts[i].pred)

InFlight(ts) == {i \in DOMAIN ts : ts[i].st = "inflight"}

\* ------------------------------------------------------------------ JavaScript values
\* A JSON scalar as the code sees it: its type, and its string or number.
Str(s) == [ty |-> "string", s |-> s, n |-> 0]
Num(n) == [ty |-> "number", s |-> "", n |-> n]
Undef == [ty |-> "undefined", s |-> "", n |-> 0]

\* v is truthy: the left side of `v || d` is kept
Truthy(v) ==
    CASE v.ty = "string" -> v.s # ""
      [] v.ty = "number" -> v.n # 0
      [] v.ty \in {"undefined", "null"} -> FALSE
      [] OTHER -> TRUE

\* The strings of the model that carry leading or trailing white space, with what trim() makes of them.
Padded == [s \in {"  ", " Klaus Mueller "} |-> IF s = "  " THEN "" ELSE "Klaus Mueller"]

\* String.prototype.trim
Trim(s) == IF s \in DOMAIN Padded THEN Padded[s] ELSE s

\* (v || "").trim(): a truthy value that is no string has no trim method (TypeError)
OrEmptyThrows(v) == Truthy(v) /\ v.ty # "string"
OrEmptyTrim(v) == IF Truthy(v) THEN Trim(v.s) ELSE ""

\* clamp(v, lo, hi) of util.js: Math.max(lo, Math.min(hi, v))
Min(a, b) == IF a < b THEN a ELSE b
Max(a, b) == IF a > b THEN a ELSE b
clamp(v, lo, hi) == Max(lo, Min(hi, v))

\* The decimal strings of the model, for parseInt and for /(\d+)/.
Digits == [s \in {"7", "0", "11", "9", "Rating: 9", "-4"} |->
             CASE s = "7" -> 7 [] s = "0" -> 0 [] s = "11" -> 11 [] s = "9" -> 9 [] s = "Rating: 9" -> 9 [] s = "-4" -> 4]

\* parseInt(v, 10) || 3 for v = m.importance ?? 3: NaN and 0 both give 3
ParseIntOr3(v) ==
    LET n == CASE v.ty = "number" -> v.n
               [] v.ty = "string" /\ v.s \in {"7", "0", "11", "9"} -> Digits[v.s]
               [] v.ty = "string" /\ v.s = "-4" -> -4
               [] v.ty \in {"undefined", "null"} -> 3
               [] OTHER -> 0
    IN IF n = 0 THEN 3 ELSE n

\* ------------------------------------------------------------------ World (world.js 6-90)
\* Coordinates are kept in tenths of a grid cell.
\* this.places of the World constructor, in registration order
Places == <<
    [id |-> "hobbs",   name |-> "Hobbs Cafe",                 x |-> 100, y |-> 100, r |-> 30],
    [id |-> "park",    name |-> "Johnson Park",               x |-> 220, y |-> 90,  r |-> 35],
    [id |-> "college", name |-> "Oak Hill College",           x |-> 200, y |-> 210, r |-> 32],
    [id |-> "library", name |-> "Oak Hill College Library",   x |-> 80,  y |-> 220, r |-> 32],
    [id |-> "market",  name |-> "Willow Market and Pharmacy", x |-> 260, y |-> 260, r |-> 32],
    [id |-> "plaza",   name |-> "Town Plaza",                 x |-> 140, y |-> 280, r |-> 38] >>

PlaceIx == DOMAIN Places
NoPlace == 0

\* dist(a, b, c, d) squared: Math.hypot is monotone in it
Dist2(a, b, c, d) == (a - c) * (a - c) + (b - d) * (b - d)

\* nearestPlace: the first place at the least distance (the scan keeps the earlier one on a tie)
nearestPlace(x, y) ==
    CHOOSE p \in PlaceIx :
        \A q \in PlaceIx :
            \/ Dist2(x, y, Places[p].x, Places[p].y) < Dist2(x, y, Places[q].x, Places[q].y)
            \/ Dist2(x, y, Places[p].x, Places[p].y) = Dist2(x, y, Places[q].x, Places[q].y) /\ p <= q

\* placeAt: the nearest place when the point is within its radius, else null
placeAt(x, y) ==
    LET p == nearestPlace(x, y)
    IN IF Dist2(x, y, Places[p].x, Places[p].y) <= Places[p].r * Places[p].r THEN p ELSE NoPlace

\* new World(): an empty chat log per place and an empty event log
NewWorld == [chat |-> [p \in PlaceIx |-> <<>>], log |-> <<>>]

\* (a perceive without `if (a.id === agent.id) continue`)
perceiveAll(me, x, y, all) ==
    LET place == placeAt(x, y)
        near(j) == place # NoPlace /\ placeAt(all[j].x, all[j].y) = place
    IN [place |-> place, others |-> {j \in DOMAIN all : near(j)}]

\* perceive(agent, allAgents): the others of allAgents resolved to the agent's place, in array order
\* (the agents of a roster are named by their index, which stands for agent.id)
perceive(me, x, y, all) ==
    LET place == placeAt(x, y)
        near(j) == j # me /\ place # NoPlace /\ placeAt(all[j].x, all[j].y) = place
    IN [place |-> place, others |-> {j \in DOMAIN all : near(j)}]

\* (a postChat without the push to this.log)
postChatSilent(w, placeId, speaker, text, time) ==
    IF placeId \notin PlaceIx THEN w
    ELSE [w EXCEPT !.chat[placeId] = Append(@, [speaker |-> speaker, text |-> text, time |-> time])]

\* postChat(placeId, speaker, text, time): no placeId, or no chat log of that place, returns
postChat(w, placeId, speaker, text, time) ==
    IF placeId \notin PlaceIx THEN w
    ELSE [w EXCEPT !.chat[placeId] = Append(@, [speaker |-> speaker, text |-> text, time |-> time]),
                   !.log = Append(@, [time |-> time, text |-> <<speaker, ": ", text>>, place |-> placeId])]

\* logEvent(time, text, placeId = null)
logEvent(w, time, text, placeId) ==
    [w EXCEPT !.log = Append(@, [time |-> time, text |-> text, place |-> placeId])]

KeepMinutesDefault == 120

\* (a cleanupOldChat that keeps m.time.getTime() > cutoff)
cleanupOldChatStrict(w, now) ==
    LET cutoff == now - KeepMinutesDefault
        keep(m) == m.time > cutoff
    IN [w EXCEPT !.chat = [p \in PlaceIx |-> SelectSeq(w.chat[p], keep)]]

\* cleanupOldChat(now, keepMinutes = 120)
cleanupOldChat(w, now) ==
    LET cutoff == now - KeepMinutesDefault
        keep(m) == m.time >= cutoff
    IN [w EXCEPT !.chat = [p \in PlaceIx |-> SelectSeq(w.chat[p], keep)]]

\* ------------------------------------------------------------------ tokens (memory.js 8-26)
STOPWORDS ==
    {"the", "a", "an", "and", "or", "to", "of", "in", "on", "for", "with", "at", "from", "by", "as",
     "is", "are", "was", "were", "be", "i", "you", "he", "she", "they", "we", "me", "my", "your",
     "his", "her", "their", "our", "this", "that", "it", "its", "there", "here", "then", "so", "but"}

\* text.toLowerCase() then the three replace calls, one character at a time: a capital becomes
\* its small letter, a letter or a digit stays, anything else ends up as a space
CleanChar ==
    LET upper == "ABCDEFGHIJKLMNOPQRSTUVWXYZ"
        lower == "abcdefghijklmnopqrstuvwxyz0123456789"
        at(s, i) == SubSeq(s, i, i)
    IN [c \in {at(upper, i) : i \in 1..26} |-> at(lower, CHOOSE i \in 1..26 : at(upper, i) = c)]
       @@ [c \in {at(lower, i) : i \in 1..36} |-> c]

\* tokenize(text): the runs of kept characters, without the stopwords and the one-letter runs
tokenize(text) ==
    LET ch(i) == IF SubSeq(text, i, i) \in DOMAIN CleanChar THEN CleanChar[SubSeq(text, i, i)] ELSE " "
        RECURSIVE split(_, _, _)
        split(i, cur, raw) ==
            IF i > Len(text) THEN (IF cur = "" THEN raw ELSE Append(raw, cur))
            ELSE IF ch(i) = " " THEN split(i + 1, "", IF cur = "" THEN raw ELSE Append(raw, cur))
            ELSE split(i + 1, cur \o ch(i), raw)
        keep(t) == t \notin STOPWORDS /\ Len(t) >= 2
    IN SelectSeq(split(1, "", <<>>), keep)

\* the tf map of a record or of a query: token -> how often it occurs in tokens
TermFreq(tokens) ==
    [t \in {tokens[i] : i \in DOMAIN tokens} |-> Cardinality({i \in DOMAIN tokens : tokens[i] = t})]

\* ------------------------------------------------------------------ Agent (world.js 189-456)
\* The roster of scenario.js (makeAgents), in array order, with the place each agent starts at.
AgentNames == <<"Isabella Rodriguez", "Klaus Mueller", "Maria Lopez", "John Lin", "Sam Moore">>
AgentHome == <<"Town Plaza", "Oak Hill College", "Oak Hill College", "Town Plaza", "Town Plaza">>
StartAt == <<1, 4, 3, 6, 2>>

\* How many agents of the roster, and how many seed phrases of each, the model keeps.
NumAgents == 2
NumSeeds == 2

AgentIx == 1..NumAgents

Act(tag, arg) == [tag |-> tag, arg |-> arg]
UnsureThought == Str("I'm not sure what to do next... I'll observe for now.")

NoPlan == [src |-> "null", blocks |-> <<>>]

\* new Agent({...}) as makeAgents builds it: at its start place, no destination, an empty stream
NewAgent(i) ==
    [x |-> Places[StartAt[i]].x, y |-> Places[StartAt[i]].y, dest |-> NoPlace,
     energy |-> 100, memory |-> <<>>, dailyPlan |-> NoPlan, summary |-> "",
     acc |-> 0, currentAction |-> Act("idle", ""), lastThought |-> Str("")]

makeAgents == [i \in AgentIx |-> NewAgent(i)]

\* (a MemoryRecord whose id comes from a nextId that never increments the counter)
MemoryRecordSameId(prefix, idc, time, text, importance, type) ==
    [id |-> <<prefix, 0>>, time |-> time, text |-> text, importance |-> importance, type |-> type,
     tf |-> TermFreq(tokenize(text))]

\* new MemoryRecord({ id: nextId(prefix), time, text, importance, type }); nextId gives
\* `${prefix}_${_idCounter}` after incrementing the module-wide counter; this.tokens is kept
\* as this.tf, whose domain is the distinct tokens
MemoryRecord(prefix, idc, time, text, importance, type) ==
    [id |-> <<prefix, idc>>, time |-> time, text |-> text, importance |-> importance, type |-> type,
     tf |-> TermFreq(tokenize(text))]

\* MemoryStream.add: this.records.push(record)
add(records, rec) == Append(records, rec)

\* seedInitialMemories: one observation per seed phrase, importance 8, 7, 6, 5, 5, ...
RECURSIVE SeedFrom(_, _, _, _, _)
SeedFrom(records, idc, now, k, imp) ==
    IF k > NumSeeds THEN [records |-> records, idc |-> idc]
    ELSE SeedFrom(add(records, MemoryRecord("seed", idc + 1, now, "seed " \o ToString(k), imp, "observation")),
                  idc + 1, now, k + 1, Max(5, imp - 1))

seedInitialMemories(a, idc, now) ==
    LET r == SeedFrom(a.memory, idc, now, 1, 8)
    IN [a |-> [a EXCEPT !.memory = r.records], idc |-> r.idc]

\* A plan block as the gateway may return it: an object, or null inside the array.
Block(start, end, location, activity) ==
    [ty |-> "object", start |-> start, end |-> end, location |-> location, activity |-> activity]
NullBlock == [ty |-> "null", start |-> "", end |-> "", location |-> "", activity |-> ""]

\* The fallback plan of makeDailyPlan; the regular expressions pick the first place whose
\* name holds cafe, library, park and market|pharmacy.
FallbackPlan(home) ==
    [src |-> "fallback",
     blocks |-> << Block("08:00", "09:00", home, "Morning routine and breakfast"),
                   Block("09:00", "11:30", Places[4].name, "Work / study"),
                   Block("11:30", "12:30", Places[1].name, "Lunch and a short chat"),
                   Block("12:30", "15:30", Places[4].name, "More focused work / study"),
                   Block("15:30", "16:15", Places[2].name, "Walk and clear my head"),
                   Block("16:15", "18:00", Places[5].name, "Errands"),
                   Block("18:00", "20:00", home, "Dinner and downtime") >>]

\* makeDailyPlan after the gateway answered: obj && Array.isArray(obj.blocks) keeps obj as it is
PlanFrom(obj, home) ==
    IF obj.ty = "object" /\ obj.blocks.ty = "array"
    THEN [src |-> "gateway", blocks |-> obj.blocks.items]
    ELSE FallbackPlan(home)

\* planSnippetFor: blocks.filter(b => b.end >= hhmm) reads b.end of every block, so a null block throws
planSnippetThrows(plan) == \E k \in DOMAIN plan.blocks : plan.blocks[k].ty = "null"

\* Math.hypot rounded down, in tenths of a cell
MaxCoord == 319
ISqrt(n) == CHOOSE r \in 0..(2 * MaxCoord) : r * r <= n /\ (r + 1) * (r + 1) > n

\* n / d rounded to the nearest integer
RoundDiv(n, d) == (2 * n + d) \div (2 * d)

\* this.speed = 1.3 cells per tick
Speed == 13

\* The agent a stride of length Speed nearer to (tx, ty), d being the distance (lines 343-349).
Stride(a, tx, ty, d) ==
    [a EXCEPT !.x = clamp(a.x + RoundDiv((tx - a.x) * Speed, d), 0, MaxCoord),
              !.y = clamp(a.y + RoundDiv((ty - a.y) * Speed, d), 0, MaxCoord)]

\* (a _moveTowardsDest that always walks this.speed, without Math.min(this.speed, d))
moveTowardsDestFar(a) ==
    IF a.dest = NoPlace THEN a
    ELSE LET tx == Places[a.dest].x
             ty == Places[a.dest].y
             d2 == Dist2(a.x, a.y, tx, ty)
         IN IF d2 = 0
            THEN [a EXCEPT !.x = tx, !.y = ty, !.dest = NoPlace]
            ELSE CHOOSE b \in {Stride(a, tx, ty, d) : d \in {Max(1, ISqrt(n)) : n \in {d2}}} : TRUE

\* (a _moveTowardsDest without the d < 0.01 branch that clears the destination)
moveTowardsDestNoSnap(a) ==
    IF a.dest = NoPlace THEN a
    ELSE LET tx == Places[a.dest].x
             ty == Places[a.dest].y
             d2 == Dist2(a.x, a.y, tx, ty)
         IN IF d2 <= Speed * Speed
            THEN [a EXCEPT !.x = clamp(tx, 0, MaxCoord), !.y = clamp(ty, 0, MaxCoord)]
            ELSE CHOOSE b \in {Stride(a, tx, ty, d) : d \in {ISqrt(n) : n \in {d2}}} : TRUE

\* _moveTowardsDest
moveTowardsDest(a) ==
    IF a.dest = NoPlace THEN a
    ELSE LET tx == Places[a.dest].x
             ty == Places[a.dest].y
             d2 == Dist2(a.x, a.y, tx, ty)
         IN IF d2 = 0
            THEN [a EXCEPT !.x = tx, !.y = ty, !.dest = NoPlace]
            ELSE IF d2 <= Speed * Speed
            THEN [a EXCEPT !.x = clamp(tx, 0, MaxCoord), !.y = clamp(ty, 0, MaxCoord)]
            ELSE CHOOSE b \in {Stride(a, tx, ty, d) : d \in {ISqrt(n) : n \in {d2}}} : TRUE

\* step, lines 381-384: if (this.dest) { this._moveTowardsDest(); this.currentAction = "walking"; }
StepMove(a) ==
    IF a.dest # NoPlace THEN [moveTowardsDest(a) EXCEPT !.currentAction = Act("walking", "")] ELSE a

\* step, lines 443-444: this.dest = {...place}; this.currentAction = `going to ${place.name}`
HeadTo(a, place) == [a EXCEPT !.dest = place, !.currentAction = Act("going to", Places[place].name)]

\* A memory item of a decision: an object, or something that is none
Item(text, type, importance) == [ty |-> "object", text |-> text, type |-> type, importance |-> importance]
NullItem == [ty |-> "null", text |-> Undef, type |-> Undef, importance |-> Undef]

\* String(m.text || "").slice(0, 280)
MaxTextLen == 280
ItemText(it) ==
    LET s == IF ~Truthy(it.text) THEN ""
             ELSE IF it.text.ty = "string" THEN it.text.s ELSE ToString(it.text.n)
    IN SubSeq(s, 1, Min(MaxTextLen, Len(s)))

\* m.type === "action" ? "action" : "observation"
ItemType(it) == IF it.type.ty = "string" /\ it.type.s = "action" THEN "action" ELSE "observation"

\* (the importance of an item taken as the gateway gave it)
ItemImportanceRaw(it) == ParseIntOr3(it.importance)

\* clamp(parseInt(m.importance ?? 3, 10) || 3, 1, 10)
ItemImportance(it) == clamp(ParseIntOr3(it.importance), 1, 10)

\* _rateImportancePaperStyle after the gateway answered: the first run of digits, clamped; 3 without one
RatedImportance(out) == IF out \in DOMAIN Digits THEN clamp(Digits[out], 1, 10) ELSE 3

\* this.importanceSinceReflection < 26
ReflectThreshold == 26

\* (a lookup that falls back to the last registered place)
PlaceNamedLast(target) ==
    IF \E p \in PlaceIx : Places[p].name = target
    THEN CHOOSE p \in PlaceIx : Places[p].name = target /\ \A q \in PlaceIx : Places[q].name = target => p <= q
    ELSE Len(Places)

\* world.places.find(p => p.name === target) ?? world.places[0]
PlaceNamed(target) ==
    IF \E p \in PlaceIx : Places[p].name = target
    THEN CHOOSE p \in PlaceIx : Places[p].name = target /\ \A q \in PlaceIx : Places[q].name = target => p <= q
    ELSE 1

\* ------------------------------------------------------------------ what the gateway may answer
\* The content of a completion: JSON text of a value, that text wrapped in prose
\* (JSON.parse fails, the slice from the first { to the last } parses), or text holding no JSON.
Content(form, val) == [form |-> form, val |-> val]

\* chatJSON after chat() returned txt: the parsed value, or null
chatJSON(c, null) ==
    CASE c.form = "json" -> c.val
      [] c.form = "wrapped" /\ c.val.ty = "object" -> c.val
      [] OTHER -> null

\* An action decision as parsed: the fields the code reads.
Decision(thought, action, target, utterance, memories) ==
    [ty |-> "object", thought |-> thought, action |-> action, target |-> target,
     utterance |-> utterance, memories |-> memories]
Arr(items) == [ty |-> "array", items |-> items]
NoArr == [ty |-> "undefined", items |-> <<>>]
NullDecision == [ty |-> "null", thought |-> Undef, action |-> Undef, target |-> Undef,
                 utterance |-> Undef, memories |-> NoArr]

\* A plan and a reflection as parsed.
PlanObj(blocks) == [ty |-> "object", blocks |-> blocks]
NullPlan == [ty |-> "null", blocks |-> NoArr]
ReflObj(insights, summary) == [ty |-> "object", insights |-> insights, summary_update |-> summary]
NullRefl == [ty |-> "null", insights |-> NoArr, summary_update |-> Undef]
\* an insights value with a length that cannot be iterated, e.g. {"length": 2}
Sized == [ty |-> "object", items |-> <<>>]

\* ACTION_SCHEMA of prompts.js: what a validator of the decision would accept
ValidItem(it) ==
    /\ it.ty = "object"
    /\ it.text.ty = "string"
    /\ it.type.ty = "string" /\ it.type.s \in {"observation", "action"}
    /\ it.importance.ty = "number" /\ it.importance.n \in 1..10

ValidDecision(obj) ==
    /\ obj.ty = "object"
    /\ obj.thought.ty = "string"
    /\ obj.action.ty = "string" /\ obj.action.s \in {"move", "interact", "stay"}
    /\ obj.target.ty = "string"
    /\ obj.utterance.ty = "string"
    /\ obj.memories.ty = "array"
    /\ Len(obj.memories.items) <= 3
    /\ \A k \in DOMAIN obj.memories.items : ValidItem(obj.memories.items[k])

\* ------------------------------------------------------------------ the machine
\* The whole mutable state as one record, so that the code run by one macrotask composes.
Mach ==
    [running |-> running, simTime |-> simTime, world |-> world, agents |-> agents,
     worlds |-> worlds, rosters |-> rosters, idCounter |-> idCounter,
     tasks |-> tasks, queue |-> queue, acts |-> acts]

Becomes(m) ==
    /\ running' = m.running
    /\ simTime' = m.simTime
    /\ world' = m.world
    /\ agents' = m.agents
    /\ worlds' = m.worlds
    /\ rosters' = m.rosters
    /\ idCounter' = m.idCounter
    /\ tasks' = m.tasks
    /\ queue' = m.queue
    /\ acts' = m.acts

NoPerc == [place |-> NoPlace, others |-> {}]

\* An activation: which handler, where it waits, and the locals that live across its awaits.
\*   roster, i : the array `for (const a of agents)` iterates and the index of a
\*   mode      : const mode of tickOnce / resetSim
\*   w, all, now, perc, obj, k : world, allAgents, now, perception, obj and the position in
\*                               obj.memories of the Agent method in progress
\*   stepped   : history, the agents whose step this tick has invoked, in order
\*   paused    : history, Pause was pressed while this tick was in progress
NewAct(kind) ==
    [kind |-> kind, pc |-> "start", roster |-> 0, i |-> 0, mode |-> "fast",
     w |-> 0, all |-> 0, now |-> 0, perc |-> NoPerc, obj |-> NullDecision, k |-> 0,
     stepped |-> <<>>, paused |-> FALSE]

\* The activation is inside tickOnce, between its first line and its return.
InTick(act) == act.kind \in {"step", "run"} /\ act.pc \in {"decide", "rate", "reflect", "sleep0"}

\* The activation is inside a.step.
InStep(act) == act.kind \in {"step", "run"} /\ act.pc \in {"decide", "rate", "reflect"}

\* The locals of the Agent method go out of scope.
Leave(act, pc) ==
    [act EXCEPT !.pc = pc, !.w = 0, !.all = 0, !.now = 0, !.perc = NoPerc, !.obj = NullDecision, !.k = 0]

\* The microtask checkpoint: every then-reaction whose promise has settled runs its task.
StartReady(m) ==
    [m EXCEPT !.tasks = [i \in DOMAIN m.tasks |->
                            IF ThenReady(m.tasks, i) THEN [m.tasks[i] EXCEPT !.st = "inflight"] ELSE m.tasks[i]]]

\* Activation p calls llm.chat / llm.chatJSON and awaits it.
Submit(m, p, kind) ==
    LET ts == ChatAppend(m.tasks, m.queue, p, kind)
    IN StartReady([m EXCEPT !.tasks = ts, !.queue = Len(ts)])

\* A settled promise that nothing awaits any more is dropped from the chain; what was chained
\* on it is chained on a settled promise, which `pred = 0` stands for.
Unlink(m, i) ==
    LET shift(j) == IF j = i THEN 0 ELSE IF j > i THEN j - 1 ELSE j
        rest == [j \in 1..(Len(m.tasks) - 1) |-> IF j < i THEN m.tasks[j] ELSE m.tasks[j + 1]]
    IN [m EXCEPT !.tasks = [j \in DOMAIN rest |-> [rest[j] EXCEPT !.pred = shift(@)]],
                 !.queue = shift(@)]

\* An exception leaves the handler: the promise of the activation is rejected and nothing catches it.
Fail(m, p) == [m EXCEPT !.acts[p] = Leave(@, "failed")]

\* a.step returned in tickOnce: render, then await sleep(0)
AfterStep(m, p) == [m EXCEPT !.acts[p] = Leave(@, "sleep0")]

\* a.step(llm, world, agents, simTime, { mode }) up to its first await
StepCall(m, p) ==
    LET act == m.acts[p]
        a0 == m.rosters[act.roster][act.i]
        a1 == StepMove(a0)
        m1 == [m EXCEPT !.rosters[act.roster][act.i] = a1,
                        !.acts[p].stepped = Append(@, act.i)]
        perception == perceive(act.i, a1.x, a1.y, m1.rosters[m.agents])
    IN IF planSnippetThrows(a1.dailyPlan)
       THEN Fail(m1, p)
       ELSE Submit([m1 EXCEPT !.acts[p].pc = "decide", !.acts[p].w = m.world, !.acts[p].all = m.agents,
                              !.acts[p].now = m.simTime, !.acts[p].perc = perception],
                   p, "action")

\* maybeReflect up to its await
maybeReflect(m, p) ==
    LET act == m.acts[p]
    IN IF m.rosters[act.roster][act.i].acc < ReflectThreshold
       THEN AfterStep(m, p)
       ELSE Submit([m EXCEPT !.acts[p].pc = "reflect"], p, "reflect")

\* Execute action (step, lines 426-454)
ExecAction(m, p, obj) ==
    LET act == m.acts[p]
        a == m.rosters[act.roster][act.i]
        name == AgentNames[act.i]
        target == OrEmptyTrim(obj.target)
        utterance == OrEmptyTrim(obj.utterance)
        action == IF obj.action.ty = "string" THEN obj.action.s ELSE ""
        ok == \E j \in act.perc.others : AgentNames[j] = target
        place == PlaceNamed(target)
        m1 == CASE action = "interact" /\ ok /\ utterance # "" ->
                     [m EXCEPT !.worlds[act.w] = postChat(@, act.perc.place, name, utterance, act.now),
                               !.rosters[act.roster][act.i].currentAction = Act("talking to", target)]
                [] action = "interact" /\ ~(ok /\ utterance # "") ->
                     [m EXCEPT !.rosters[act.roster][act.i].currentAction = Act("idle", "")]
                [] action = "move" ->
                     [m EXCEPT !.rosters[act.roster][act.i] = HeadTo(@, place),
                               !.worlds[act.w] = logEvent(@, act.now, <<name, " heads to ", Places[place].name>>, place)]
                [] OTHER ->
                     [m EXCEPT !.rosters[act.roster][act.i].currentAction = Act("staying", "")]
        m2 == [m1 EXCEPT !.rosters[act.roster][act.i].energy = clamp(@ - 1, 0, 100)]
    IN IF OrEmptyThrows(obj.target) \/ OrEmptyThrows(obj.utterance)
       THEN Fail(m, p)
       ELSE maybeReflect(m2, p)

\* const rec = new MemoryRecord({ id: nextId("mem"), ... }); this.memory.add(rec); accumulate
StoreMemory(m, p, it, imp) ==
    LET act == m.acts[p]
        rec == MemoryRecord("mem", m.idCounter + 1, act.now, ItemText(it), imp, ItemType(it))
    IN [m EXCEPT !.idCounter = @ + 1,
                 !.rosters[act.roster][act.i].memory = add(@, rec),
                 !.rosters[act.roster][act.i].acc = @ + imp]

\* Store memories (step, lines 408-424) from item k on, up to the next await
RECURSIVE MemLoop(_, _, _, _)
MemLoop(m, p, obj, k) ==
    IF obj.memories.ty # "array" \/ k > Len(obj.memories.items)
    THEN ExecAction(m, p, obj)
    ELSE LET it == obj.memories.items[k]
         IN IF it.ty = "null"
            THEN Fail(m, p)
            ELSE IF m.acts[p].mode = "paper"
            THEN Submit([m EXCEPT !.acts[p].pc = "rate", !.acts[p].obj = obj, !.acts[p].k = k], p, "rate")
            ELSE MemLoop(StoreMemory(m, p, it, ItemImportance(it)), p, obj, k + 1)

\* (a step that does what the comment of the fallback says, "random move or stay":
\* a missing decision handled as a decision to stay)
AfterDecisionStay(m, p, obj) ==
    LET act == m.acts[p]
        d == IF obj.ty = "null" THEN Decision(UnsureThought, Str("stay"), Str(""), Str(""), Arr(<<>>)) ELSE obj
    IN MemLoop([m EXCEPT !.rosters[act.roster][act.i].lastThought =
                             IF Truthy(d.thought) THEN d.thought ELSE Str("")],
               p, d, 1)

\* step after llm.chatJSON returned obj (lines 399-406)
AfterDecision(m, p, obj) ==
    LET act == m.acts[p]
    IN IF obj.ty = "null"
       THEN AfterStep([m EXCEPT !.rosters[act.roster][act.i].lastThought = UnsureThought,
                                !.rosters[act.roster][act.i].currentAction = Act("idle", "")], p)
       ELSE MemLoop([m EXCEPT !.rosters[act.roster][act.i].lastThought =
                                  IF Truthy(obj.thought) THEN obj.thought ELSE Str("")],
                    p, obj, 1)

\* step after _rateImportancePaperStyle returned for item k
AfterRate(m, p, out) ==
    LET act == m.acts[p]
    IN MemLoop(StoreMemory(m, p, act.obj.memories.items[act.k], RatedImportance(out)), p, act.obj, act.k + 1)

\* for (const ins of obj.insights) this.memory.add(new MemoryRecord({ id: nextId("ref"), ... }))
RECURSIVE AddInsights(_, _, _, _, _)
AddInsights(records, idc, now, items, k) ==
    IF k > Len(items) THEN [records |-> records, idc |-> idc]
    ELSE AddInsights(add(records, MemoryRecord("ref", idc + 1, now, "Insight: " \o items[k], 8, "reflection")),
                     idc + 1, now, items, k + 1)

\* maybeReflect after llm.chatJSON returned obj (lines 368-376)
AfterReflect(m, p, obj) ==
    LET act == m.acts[p]
        a == m.rosters[act.roster][act.i]
        has == obj.ty = "object" /\ obj.insights.ty = "array" /\ Len(obj.insights.items) > 0
        r == AddInsights(a.memory, m.idCounter, act.now, obj.insights.items, 1)
        a1 == [a EXCEPT !.memory = r.records,
                        !.summary = IF Truthy(obj.summary_update) THEN obj.summary_update.s ELSE @]
        m1 == IF has
              THEN [m EXCEPT !.idCounter = r.idc,
                             !.rosters[act.roster][act.i] = a1,
                             !.worlds[act.w] = logEvent(@, act.now, <<AgentNames[act.i], " reflects and gains insights.">>,
                                                        placeAt(a.x, a.y))]
              ELSE m
    IN IF obj.ty = "object" /\ obj.insights = Sized
       THEN Fail(m, p)
       ELSE AfterStep([m1 EXCEPT !.rosters[act.roster][act.i].acc = 0], p)

\* world.cleanupOldChat(simTime) and the return of tickOnce, back in its caller
TickEnd(m, p) ==
    LET m1 == IF m.world = 0 THEN m ELSE [m EXCEPT !.worlds[m.world] = cleanupOldChat(@, m.simTime)]
    IN [m1 EXCEPT !.acts[p] = Leave(@, IF @.kind = "run" THEN "loopsleep" ELSE "done")]

\* Simulation constants
MINUTES_PER_TICK == 10

\* tickOnce up to its first await
tickOnce(m, p, mode) ==
    IF m.world = 0 \/ m.agents = 0
    THEN [m EXCEPT !.acts[p] = Leave(@, IF @.kind = "run" THEN "loopsleep" ELSE "done")]
    ELSE StepCall([m EXCEPT !.simTime = @ + MINUTES_PER_TICK,
                            !.acts[p].roster = m.agents, !.acts[p].i = 1, !.acts[p].mode = mode,
                            !.acts[p].stepped = <<>>, !.acts[p].paused = FALSE], p)

\* tickOnce after await sleep(0): the next agent of the array, or the end of the tick
AfterSleep0(m, p) ==
    IF m.acts[p].i < NumAgents
    THEN StepCall([m EXCEPT !.acts[p].i = @ + 1], p)
    ELSE TickEnd(m, p)

\* runLoop after await sleep(delayMs): while (running)
AfterLoopSleep(m, p, mode) ==
    IF m.running THEN tickOnce(m, p, mode) ELSE [m EXCEPT !.acts[p] = Leave(@, "done")]

\* a.initialize(llm, world, simTime, { mode }) up to its await
initialize(m, p) ==
    LET act == m.acts[p]
        s == seedInitialMemories(m.rosters[act.roster][act.i], m.idCounter, m.simTime)
    IN Submit([m EXCEPT !.rosters[act.roster][act.i] = s.a,
                        !.idCounter = s.idc,
                        !.acts[p].pc = "plan", !.acts[p].w = m.world, !.acts[p].now = m.simTime],
              p, "plan")

\* initialize after makeDailyPlan's llm.chatJSON returned obj, then the rest of resetSim's loop
AfterPlan(m, p, obj) ==
    LET act == m.acts[p]
        a == m.rosters[act.roster][act.i]
        m1 == [m EXCEPT !.rosters[act.roster][act.i].dailyPlan = PlanFrom(obj, AgentHome[act.i]),
                        !.worlds[act.w] = logEvent(@, act.now, <<AgentNames[act.i], " wakes up and starts the day.">>,
                                                   placeAt(a.x, a.y))]
    IN IF act.i < NumAgents
       THEN initialize([m1 EXCEPT !.acts[p].i = @ + 1], p)
       ELSE [m1 EXCEPT !.acts[p] = Leave(@, "done")]

\* resetSim up to its first await (llm is set: the model starts after a successful load)
resetSim(m, p) ==
    LET m1 == [m EXCEPT !.running = FALSE,
                        !.simTime = 0,
                        !.worlds = Append(@, NewWorld),
                        !.world = Len(m.worlds) + 1,
                        !.rosters = Append(@, makeAgents),
                        !.agents = Len(m.rosters) + 1]
    IN initialize([m1 EXCEPT !.acts[p].roster = m1.agents, !.acts[p].i = 1], p)

\* ------------------------------------------------------------------ SpecLLM
\* What the engine may do with one chat.completions.create call.
EngineOutcomes == {"ok", "fail"}

IdleCall == [st |-> "idle", promise |-> 0, val |-> NoRes]

InitLLM ==
    /\ tasks = <<>>
    /\ queue = 0

\* new MemoryStream(), and no call of its methods yet
NewStream == [records |-> <<>>, df |-> <<>>]
InitStream ==
    /\ stream = NewStream
    /\ call = [op |-> "new", before |-> NewStream, query |-> "", now |-> 0, k |-> 0,
               types |-> [ty |-> "null", of |-> {}], out |-> <<>>]

InitCallers ==
    /\ calls = [c \in Callers |-> IdleCall]
    /\ started = <<>>

\* A caller invokes llm.chat(...) (directly or through chatJSON).
Call(c) ==
    /\ calls[c].st = "idle"
    /\ tasks' = ChatAppend(tasks, queue, c, "chat")
    /\ queue' = Len(tasks) + 1
    /\ calls' = [calls EXCEPT ![c] = [st |-> "awaiting", promise |-> ChatReturn(queue'), val |-> NoRes]]
    /\ UNCHANGED <<started, appVars, memVars>>

\* The then-reaction runs the task: engine.chat.completions.create(req) is called.
RunTask(i) ==
    /\ ThenReady(tasks, i)
    /\ tasks' = [tasks EXCEPT ![i].st = "inflight"]
    /\ started' = Append(started, i)
    /\ UNCHANGED <<queue, calls, appVars, memVars>>

\* The engine settles the call of task i; the task returns the content or rethrows.
EngineSettle(i, o) ==
    /\ tasks[i].st = "inflight"
    /\ tasks' = [tasks EXCEPT ![i].st = IF o = "ok" THEN "fulfilled" ELSE "rejected",
                              ![i].res = [for |-> i, out |-> o]]
    /\ UNCHANGED <<queue, calls, started, appVars, memVars>>

\* The promise chat() returned settles and the caller's await resumes.
Deliver(c) ==
    /\ calls[c].st = "awaiting"
    /\ Settled(tasks, calls[c].promise)
    /\ calls' = [calls EXCEPT ![c] = IF calls[c].promise = 0
                                     THEN [st |-> "resolved", promise |-> 0, val |-> NoRes]
                                     ELSE [st |-> IF tasks[calls[c].promise].st = "fulfilled" THEN "resolved" ELSE "failed",
                                           promise |-> calls[c].promise,
                                           val |-> tasks[calls[c].promise].res]]
    /\ UNCHANGED <<tasks, queue, started, appVars, memVars>>

NextLLM ==
    \/ \E c \in Callers : Call(c)
    \/ \E i \in DOMAIN tasks : RunTask(i)
    \/ \E i \in DOMAIN tasks, o \in EngineOutcomes : EngineSettle(i, o)
    \/ \E c \in Callers : Deliver(c)

\* ------------------------------------------------------------------ the orchestrator (app.js)
\* How many button activations the model follows, and how far the simulated clock may run.
MaxActs == 2
MaxTicks == 2

Modes == {"fast", "paper"}

Rejected == [ok |-> FALSE, content |-> Content("none", NullDecision)]
Answer(c) == [ok |-> TRUE, content |-> c]

\* The decisions the model lets the gateway return.
StayDecision == Decision(Str("keep working"), Str("stay"), Str(""), Str(""), Arr(<<>>))
NoteDecision == Decision(Str("note it"), Str("stay"), Str(""), Str(""),
                         Arr(<<Item(Str("saw the cafe"), Str("observation"), Num(5))>>))
\* parses, but is no ActionDecision: importance above 10
LoudDecision == Decision(Str("wow"), Str("stay"), Str(""), Str(""),
                         Arr(<<Item(Str("big news"), Str("observation"), Num(11))>>))
\* parses, but is no ActionDecision: the target is the number 5
NumTargetDecision == Decision(Str("say hello"), Str("interact"), Num(5), Str("hi"), Arr(<<>>))
\* parses, but is no ActionDecision: a null among the memories
NullItemDecision == Decision(Str("hm"), Str("stay"), Str(""), Str(""), Arr(<<NullItem>>))

\* a decision to walk to a registered place
MoveDecision == Decision(Str("stretch my legs"), Str("move"), Str("Johnson Park"), Str(""), Arr(<<>>))
\* three memories (the most the schema allows) that together reach the reflection threshold
BusyDecision == Decision(Str("so much going on"), Str("stay"), Str(""), Str(""),
                         Arr(<<Item(Str("Met Klaus at the Library."), Str("action"), Num(9)),
                               Item(Str("the cafe was busy"), Str("observation"), Num(9)),
                               Item(Str("Klaus reads a lot"), Str("observation"), Str("9"))>>))

ActionOutcomes ==
    {Rejected, Answer(Content("garbage", NullDecision)), Answer(Content("json", NullDecision))}
    \cup {Answer(Content("json", d)) : d \in {StayDecision, NoteDecision, LoudDecision,
                                               NumTargetDecision, NullItemDecision, MoveDecision}}
    \cup {Answer(Content("wrapped", StayDecision))}

PlanOutcomes ==
    {Rejected, Answer(Content("garbage", NullPlan)),
     Answer(Content("json", PlanObj(Arr(<<Block("08:00", "23:00", "Hobbs Cafe", "Work")>>))))}

ReflectOutcomes ==
    {Rejected, Answer(Content("garbage", NullRefl)),
     Answer(Content("json", ReflObj(Arr(<<"I like routine", "I like people">>), Str("A steady person")))),
     Answer(Content("json", ReflObj(Sized, Undef)))}

\* The answers followed where the interest is in what gets stored and in reflection.
BusyOutcomes(kind) ==
    CASE kind = "action" -> {Answer(Content("garbage", NullDecision))}
                            \cup {Answer(Content("json", d)) : d \in {LoudDecision, BusyDecision}}
      [] kind = "plan" -> {Answer(Content("garbage", NullPlan))}
      [] kind = "reflect" -> ReflectOutcomes
      [] kind = "rate" -> {[ok |-> TRUE, content |-> s] : s \in {"11", "no idea"}}

RateOutcomes == {Rejected} \cup {[ok |-> TRUE, content |-> s] : s \in {"7", "no idea"}}

OutcomesOf(kind) ==
    CASE kind = "action" -> ActionOutcomes
      [] kind = "plan" -> PlanOutcomes
      [] kind = "reflect" -> ReflectOutcomes
      [] kind = "rate" -> RateOutcomes

\* The outcomes followed where the handlers overlap: a failed call, text that is no JSON,
\* and for a decision one that validates.
FewOutcomes(kind) ==
    CASE kind = "action" -> {Rejected, Answer(Content("garbage", NullDecision)), Answer(Content("json", StayDecision))}
      [] kind = "plan" -> {Rejected, Answer(Content("garbage", NullPlan))}
      [] kind = "reflect" -> {Rejected, Answer(Content("garbage", NullRefl))}
      [] kind = "rate" -> {Rejected, [ok |-> TRUE, content |-> "7"]}

NoLast == [p |-> 0, kind |-> "none", o |-> Rejected, n |-> 0]

\* The continuation of activation p after the call it awaited settled with o.
Resume(m, p, kind, o) ==
    CASE ~o.ok -> Fail(m, p)
      [] o.ok /\ kind = "action" -> AfterDecision(m, p, chatJSON(o.content, NullDecision))
      [] o.ok /\ kind = "rate" -> AfterRate(m, p, o.content)
      [] o.ok /\ kind = "reflect" -> AfterReflect(m, p, chatJSON(o.content, NullRefl))
      [] o.ok /\ kind = "plan" -> AfterPlan(m, p, chatJSON(o.content, NullPlan))

\* The engine settles the call in flight: the next task of the chain starts and the
\* caller's chain of awaits resumes, up to its next await.
Settle(i, o) ==
    /\ tasks[i].st = "inflight"
    /\ LET p == tasks[i].owner
           kind == tasks[i].kind
       IN /\ Becomes(Resume(StartReady(Unlink(Mach, i)), p, kind, o))
          /\ last' = [p |-> p, kind |-> kind, o |-> o, n |-> 1 - last.n]
    /\ UNCHANGED <<callerVars, memVars>>

\* A timer fires: sleep(0) in tickOnce, or sleep(delayMs) in runLoop.
Timer(p, mode) ==
    /\ acts[p].pc \in {"sleep0", "loopsleep"}
    /\ acts[p].pc = "loopsleep" /\ running => simTime < MaxTicks * MINUTES_PER_TICK
    /\ acts[p].pc = "sleep0" => mode = acts[p].mode
    /\ Becomes(IF acts[p].pc = "sleep0" THEN AfterSleep0(Mach, p) ELSE AfterLoopSleep(Mach, p, mode))
    /\ UNCHANGED <<last, callerVars, memVars>>

Spawn(m, kind) == [m EXCEPT !.acts = Append(@, NewAct(kind))]

\* btnStep.onclick
PressStep(mode) ==
    /\ Len(acts) < 1 + MaxActs
    /\ simTime < MaxTicks * MINUTES_PER_TICK
    /\ Becomes(tickOnce(Spawn(Mach, "step"), Len(acts) + 1, mode))
    /\ UNCHANGED <<last, callerVars, memVars>>

\* btnRun.onclick: if (running) return; running = true; runLoop()
PressRun(mode) ==
    /\ ~running
    /\ Len(acts) < 1 + MaxActs
    /\ simTime < MaxTicks * MINUTES_PER_TICK
    /\ Becomes(tickOnce([Spawn(Mach, "run") EXCEPT !.running = TRUE], Len(acts) + 1, mode))
    /\ UNCHANGED <<last, callerVars, memVars>>

\* btnPause.onclick
PressPause ==
    /\ running
    /\ running' = FALSE
    /\ acts' = [p \in DOMAIN acts |-> IF InTick(acts[p]) THEN [acts[p] EXCEPT !.paused = TRUE] ELSE acts[p]]
    /\ UNCHANGED <<simTime, world, agents, worlds, rosters, idCounter, last, llmVars, callerVars, memVars>>

\* btnReset.onclick
PressReset ==
    /\ Len(acts) < 1 + MaxActs
    /\ Becomes(resetSim(Spawn(Mach, "reset"), Len(acts) + 1))
    /\ UNCHANGED <<last, callerVars, memVars>>

\* loadModel has made llm and enabled the buttons, and awaits the first await of its resetSim().
Loaded ==
    resetSim([running |-> FALSE, simTime |-> 0, world |-> 0, agents |-> 0,
              worlds |-> <<>>, rosters |-> <<>>, idCounter |-> 0,
              tasks |-> <<>>, queue |-> 0, acts |-> <<NewAct("reset")>>], 1)

InitApp ==
    /\ running = Loaded.running
    /\ simTime = Loaded.simTime
    /\ world = Loaded.world
    /\ agents = Loaded.agents
    /\ worlds = Loaded.worlds
    /\ rosters = Loaded.rosters
    /\ idCounter = Loaded.idCounter
    /\ acts = Loaded.acts
    /\ last = NoLast

\* The app idle and no client: what SpecLLM leaves alone.
InitNoApp ==
    /\ running = FALSE
    /\ simTime = 0
    /\ world = 0
    /\ agents = 0
    /\ worlds = <<>>
    /\ rosters = <<>>
    /\ idCounter = 0
    /\ acts = <<>>
    /\ last = NoLast

Init ==
    /\ InitApp
    /\ tasks = Loaded.tasks
    /\ queue = Loaded.queue
    /\ InitCallers
    /\ InitStream

\* Every handler has returned or failed.
Quiet == \A p \in DOMAIN acts : acts[p].pc \in {"done", "failed"}

\* The buttons pressed at any moment, also while handlers are suspended at an await.
Next ==
    \/ PressStep("fast")
    \/ PressRun("fast")
    \/ PressPause
    \/ PressReset
    \/ \E i \in DOMAIN tasks : \E o \in FewOutcomes(tasks[i].kind) : Settle(i, o)
    \/ \E p \in DOMAIN acts : Timer(p, "fast")

\* One Step at a time, in either mode, with every answer of the gateway the model has.
StepWhenQuiet(mode) == Quiet /\ PressStep(mode)

NextAgent ==
    \/ \E mode \in Modes : StepWhenQuiet(mode)
    \/ \E i \in DOMAIN tasks : \E o \in OutcomesOf(tasks[i].kind) : Settle(i, o)
    \/ \E p \in DOMAIN acts : Timer(p, acts[p].mode)

\* The answers followed where Step is pressed again and again in paper mode.
PaperOutcomes(kind) ==
    CASE kind = "action" -> {Answer(Content("json", BusyDecision))}
      [] kind = "plan" -> {Answer(Content("garbage", NullPlan))}
      [] kind = "reflect" -> {Answer(Content("garbage", NullRefl))}
      [] kind = "rate" -> {[ok |-> TRUE, content |-> "7"]}

\* Step pressed at any moment in paper mode, every decision proposing memories.
NextPaper ==
    \/ PressStep("paper")
    \/ \E i \in DOMAIN tasks : \E o \in PaperOutcomes(tasks[i].kind) : Settle(i, o)
    \/ \E p \in DOMAIN acts : Timer(p, "paper")

\* One Step at a time, in either mode, with busy decisions: agents reflect.
NextBusy ==
    \/ \E mode \in Modes : StepWhenQuiet(mode)
    \/ \E i \in DOMAIN tasks : \E o \in BusyOutcomes(tasks[i].kind) : Settle(i, o)
    \/ \E p \in DOMAIN acts : Timer(p, acts[p].mode)

\* The answers followed where the interest is in what a decision, a plan and a reflection
\* do to the agent: decisions to move (to a place that is none, too), with an action tag
\* that is none and with four memories, a plan with a null block, a reflection without
\* insights.
ActOutcomes(kind) ==
    LET seven(text) == Item(Str(text), Str("observation"), Num(7))
        decisions ==
            {StayDecision, MoveDecision,
             Decision(Str("explore"), Str("move"), Str("Atlantis"), Str(""), Arr(<<>>)),
             Decision(Str("why not"), Str("dance"), Str(""), Str(""), Arr(<<>>)),
             Decision(Str("what a day"), Str("stay"), Str(""), Str(""),
                      Arr(<<seven("rain"), seven("a parade"), seven("a lost dog"), seven("a rainbow")>>))}
    IN CASE kind = "action" -> {Answer(Content("garbage", NullDecision))}
                               \cup {Answer(Content("json", d)) : d \in decisions}
         [] kind = "plan" -> {Answer(Content("garbage", NullPlan)),
                              Answer(Content("json", PlanObj(Arr(<<Block("08:00", "23:00", "Hobbs Cafe", "Work")>>)))),
                              Answer(Content("json", PlanObj(Arr(<<Block("08:00", "12:00", "Hobbs Cafe", "Work"), NullBlock>>))))}
         [] kind = "reflect" -> {Answer(Content("garbage", NullRefl)),
                                 Answer(Content("json", ReflObj(Arr(<<"I like routine", "I like people">>), Str("A steady person")))),
                                 Answer(Content("json", ReflObj(Arr(<<>>), Str("A changed person"))))}
         [] kind = "rate" -> {[ok |-> TRUE, content |-> "7"]}

\* One Step or Reset at a time, in either mode.
NextAct ==
    \/ \E mode \in Modes : StepWhenQuiet(mode)
    \/ Quiet /\ PressReset
    \/ \E i \in DOMAIN tasks : \E o \in ActOutcomes(tasks[i].kind) : Settle(i, o)
    \/ \E p \in DOMAIN acts : Timer(p, acts[p].mode)

vars == <<tasks, queue, calls, started, running, simTime, world, agents, worlds, rosters, idCounter, acts, last,
          stream, call>>

Spec == Init /\ [][Next]_vars

SpecAgent == Init /\ [][NextAgent]_vars

SpecBusy == Init /\ [][NextBusy]_vars

SpecPaper == Init /\ [][NextPaper]_vars

SpecAct == Init /\ [][NextAct]_vars


\* A fresh LLMClient with its callers, and no app.
InitClient == InitLLM /\ InitCallers /\ InitNoApp /\ InitStream

SpecLLM == InitClient /\ [][NextLLM]_vars

\* The event loop runs every reaction that is ready, and the engine settles every call made.
FairLLM ==
    /\ WF_vars(\E i \in DOMAIN tasks : RunTask(i))
    /\ WF_vars(\E i \in DOMAIN tasks, o \in EngineOutcomes : EngineSettle(i, o))
    /\ WF_vars(\E c \in Callers : Deliver(c))

SpecLLMFair == InitClient /\ [][NextLLM]_vars /\ FairLLM

\* ------------------------------------------------------------------ walking and perceiving
\* The agents array the globals name.
Town == rosters[agents]

\* The app once resetSim has returned, no plan request having been answered with a plan.
RECURSIVE PlansAnswered(_, _)
PlansAnswered(m, n) ==
    IF n = 0 THEN m
    ELSE PlansAnswered(Resume(StartReady(Unlink(m, 1)), 1, "plan", Answer(Content("garbage", NullPlan))), n - 1)

Ready == PlansAnswered(Loaded, NumAgents)

\* How many move decisions the walking model follows.
MaxMoves == 2

\* The steps are followed without their gateway calls; acts[1] keeps the agent that stepped
\* last and its Perception.
InitMove ==
    /\ running = Ready.running
    /\ simTime = Ready.simTime
    /\ world = Ready.world
    /\ agents = Ready.agents
    /\ worlds = Ready.worlds
    /\ rosters = Ready.rosters
    /\ idCounter = Ready.idCounter
    /\ tasks = Ready.tasks
    /\ queue = Ready.queue
    /\ acts = <<[NewAct("step") EXCEPT !.roster = Ready.agents, !.w = Ready.world, !.pc = "decide"]>>
    /\ last = NoLast
    /\ InitCallers
    /\ InitStream

\* The start of the step of the next agent in roster order (part_001 225-226, world.js
\* 381-386): move if traveling, then perceive.
BeginStep(i) ==
    /\ i = (acts[1].i % NumAgents) + 1
    /\ \E a \in {StepMove(rosters[agents][i])} :
          \E all \in {[rosters[agents] EXCEPT ![i] = a]} :
              /\ rosters' = [rosters EXCEPT ![agents] = all]
              /\ acts' = [acts EXCEPT ![1].i = i, ![1].perc = perceive(i, a.x, a.y, all)]
    /\ UNCHANGED <<running, simTime, world, agents, worlds, idCounter, last, llmVars, callerVars, memVars>>

\* The agent that is stepping, having no destination, gets a move decision for place P
\* (world.js 440-445).
GetMove(i, P) ==
    /\ acts[1].i = i
    /\ rosters[agents][i].dest = NoPlace
    /\ Len(worlds[world].log) < NumAgents + MaxMoves
    /\ rosters' = [rosters EXCEPT ![agents][i] = HeadTo(@, P)]
    /\ worlds' = [worlds EXCEPT ![world] = logEvent(@, simTime, <<AgentNames[i], " heads to ", Places[P].name>>, P)]
    /\ UNCHANGED <<running, simTime, world, agents, idCounter, acts, last, llmVars, callerVars, memVars>>

StepOn == \E i \in AgentIx : BeginStep(i)

NextMove ==
    \/ StepOn
    \/ \E i \in AgentIx, P \in PlaceIx : GetMove(i, P)

SpecMove == InitMove /\ [][NextMove]_vars

\* The ticks go on: the next agent is stepped again and again.
SpecMoveFair == SpecMove /\ WF_vars(StepOn)

\* ------------------------------------------------------------------ chatting and pruning
\* The ticks of a loaded simulation as the chat of the world sees them: the clock moves, the
\* agents post, the tick ends. Whom a speaker talks to is left out, so that every post the
\* program can make the model can make.
MaxSaid == 2
MaxChatTicks == 14

\* tickOnce, line 221: simTime = new Date(simTime.getTime() + MINUTES_PER_TICK * 60 * 1000)
TickBegin ==
    /\ acts[1].pc = "done"
    /\ simTime < MaxChatTicks * MINUTES_PER_TICK
    /\ simTime' = simTime + MINUTES_PER_TICK
    /\ acts' = [acts EXCEPT ![1].pc = "decide"]
    /\ UNCHANGED <<running, world, agents, worlds, rosters, idCounter, last, llmVars, callerVars, memVars>>

\* step, line 435: world.postChat(perception.placeId, this.name, utterance, now)
Say(i) ==
    /\ acts[1].pc = "decide"
    /\ Len(worlds[world].log) < NumAgents + MaxSaid
    /\ worlds' = [worlds EXCEPT ![world] =
                     postChat(@, placeAt(Town[i].x, Town[i].y), AgentNames[i], "Hello!", simTime)]
    /\ UNCHANGED <<running, simTime, world, agents, rosters, idCounter, acts, last, llmVars, callerVars, memVars>>

\* tickOnce, line 234: world.cleanupOldChat(simTime), and the return
TickFinish ==
    /\ acts[1].pc = "decide"
    /\ Becomes(TickEnd(Mach, 1))
    /\ UNCHANGED <<last, callerVars, memVars>>

NextChat ==
    \/ TickBegin
    \/ \E i \in AgentIx : Say(i)
    \/ TickFinish

SpecChat == InitMove /\ [][NextChat]_vars

\* ------------------------------------------------------------------ posting (world.js 70-77)
\* postChat called on the world of a loaded simulation with any placeId: none, a registered
\* place, or an id no place has; `call` keeps the arguments and the world before the call.
MaxPosts == 2

PostChat(placeId, speaker, text) ==
    /\ worlds' = [worlds EXCEPT ![world] = postChat(@, placeId, speaker, text, simTime)]
    /\ Len(worlds'[world].log) <= NumAgents + MaxPosts
    /\ call' = [op |-> "postChat", before |-> worlds[world], placeId |-> placeId,
                speaker |-> speaker, text |-> text, time |-> simTime]
    /\ UNCHANGED <<stream, running, simTime, world, agents, rosters, idCounter, acts, last, llmVars, callerVars>>

NextPost ==
    \E placeId \in PlaceIx \cup {NoPlace, Len(Places) + 1}, i \in AgentIx :
        PostChat(placeId, AgentNames[i], "Hello!")

SpecPost == InitMove /\ [][NextPost]_vars

\* ------------------------------------------------------------------ MemoryStream (memory.js)
\* this._df.get(token) ?? 0
DfOf(df, token) == IF token \in DOMAIN df THEN df[token] ELSE 0

\* (an add that counts every occurrence of a token: for (const t of record.tokens))
addEach(ms, rec) ==
    [records |-> add(ms.records, rec),
     df |-> [t \in DOMAIN ms.df \cup DOMAIN rec.tf |->
                DfOf(ms.df, t) + (IF t \in DOMAIN rec.tf THEN rec.tf[t] ELSE 0)]]

\* (an add that starts every count anew: this._df.set(t, 1))
addAnew(ms, rec) ==
    LET unique == DOMAIN rec.tf
    IN [records |-> add(ms.records, rec),
        df |-> [t \in DOMAIN ms.df \cup unique |-> IF t \in unique THEN 1 ELSE DfOf(ms.df, t)]]

\* MemoryStream.add(record): push, then one more for every token of uniq(record.tokens)
addRecord(ms, rec) ==
    LET unique == DOMAIN rec.tf
    IN [records |-> add(ms.records, rec),
        df |-> [t \in DOMAIN ms.df \cup unique |-> DfOf(ms.df, t) + (IF t \in unique THEN 1 ELSE 0)]]

\* Scores are kept in units of 1/ScoreUnit.
ScoreUnit == 10000

\* _tfidf(tfMap): tf * (Math.log((N + 1) / (df + 1)) + 1), N = this.records.length || 1,
\* in units of 1/1000 (the natural logarithms of 1..8 in thousandths)
tfidf(ms, tf) ==
    LET ln == <<0, 693, 1099, 1386, 1609, 1792, 1946, 2079>>
        N == IF Len(ms.records) = 0 THEN 1 ELSE Len(ms.records)
        idf(t) == ln[N + 1] - ln[DfOf(ms.df, t) + 1] + 1000
    IN [t \in DOMAIN tf |-> tf[t] * idf(t)]

\* cosineSparse(vecA, vecB)
cosineSparse(vecA, vecB) ==
    LET RECURSIVE sum(_, _)
        sum(f, S) == IF S = {} THEN 0 ELSE LET t == CHOOSE t \in S : TRUE IN f[t] + sum(f, S \ {t})
        RECURSIVE root(_, _, _)
        root(n, lo, hi) ==
            IF lo >= hi THEN lo
            ELSE LET mid == (lo + hi + 1) \div 2
                 IN IF mid * mid <= n THEN root(n, mid, hi) ELSE root(n, lo, mid - 1)
        both == DOMAIN vecA \cap DOMAIN vecB
        dot == sum([t \in both |-> vecA[t] * vecB[t]], both)
        normA == sum([t \in DOMAIN vecA |-> vecA[t] * vecA[t]], DOMAIN vecA)
        normB == sum([t \in DOMAIN vecB |-> vecB[t] * vecB[t]], DOMAIN vecB)
    IN IF normA = 0 \/ normB = 0 THEN 0
       ELSE ((dot \div root(normA, 0, 40000)) * ScoreUnit) \div root(normB, 0, 40000)

\* Math.pow(0.99, hours) with hours = Math.max(0, (now - rec.time) / 3600000); the times of the
\* model are minutes in steps of ten, so the power is 0.99^h * 0.99^(j/6)
Recency(now, time) ==
    LET minutes == Max(0, now - time)
        sixths == <<10000, 9983, 9967, 9950, 9933, 9917>>
        RECURSIVE pow(_)
        pow(h) == IF h = 0 THEN ScoreUnit ELSE (pow(h - 1) * 99) \div 100
    IN (pow(minutes \div 60) * sixths[((minutes % 60) \div 10) + 1]) \div ScoreUnit

\* retrieve, lines 91-107: the scored entry of every record the type filter lets through
Scored(ms, query, now, types) ==
    LET qVec == tfidf(ms, TermFreq(tokenize(query)))
        entry(rec) ==
            LET relevance == cosineSparse(qVec, tfidf(ms, rec.tf))
                recency == Recency(now, rec.time)
                importance == (clamp(rec.importance, 1, 10) * ScoreUnit) \div 10
            IN [rec |-> rec, score |-> relevance + recency + importance,
                relevance |-> relevance, recency |-> recency, importance |-> importance]
        pass(rec) == types.ty = "null" \/ rec.type \in types.of
        all == SelectSeq(ms.records, pass)
    IN [i \in DOMAIN all |-> entry(all[i])]

\* scored.sort((a, b) => b.score - a.score): a stable sort, the greater score first
sortByScore(scored) ==
    LET RECURSIVE insert(_, _)
        insert(sorted, e) ==
            IF sorted = <<>> THEN <<e>>
            ELSE IF Head(sorted).score >= e.score THEN <<Head(sorted)>> \o insert(Tail(sorted), e)
            ELSE <<e>> \o sorted
        RECURSIVE upTo(_)
        upTo(n) == IF n = 0 THEN <<>> ELSE insert(upTo(n - 1), scored[n])
    IN upTo(Len(scored))

\* (a retrieve without the sort: scored.slice(0, k))
retrieveUnsorted(ms, query, now, k, types) ==
    LET scored == Scored(ms, query, now, types)
    IN SubSeq(scored, 1, Min(k, Len(scored)))

\* retrieve(query, now, k = 8, { types = null } = {})
retrieve(ms, query, now, k, types) ==
    LET scored == sortByScore(Scored(ms, query, now, types))
    IN SubSeq(scored, 1, Min(k, Len(scored)))

\* recent(n = 10): this.records.slice(-n); slice counts a negative start from the end,
\* takes a start before the first element as 0, and -0 is 0
recent(ms, n) ==
    LET len == Len(ms.records)
        start == IF -n < 0 THEN Max(len - n, 0) ELSE Min(-n, len)
    IN SubSeq(ms.records, start + 1, len)

\* How many records the model adds to the stream.
MaxRecords == 3

\* this.memory.add(new MemoryRecord({ id, time, text, importance, type }))
Add(text, time, importance, type) ==
    /\ Len(stream.records) < MaxRecords
    /\ stream' = addRecord(stream, MemoryRecord("mem", Len(stream.records) + 1, time, text, importance, type))
    /\ call' = [op |-> "add", before |-> stream, query |-> "", now |-> 0, k |-> 0,
                types |-> [ty |-> "null", of |-> {}], out |-> <<>>]
    /\ UNCHANGED <<llmVars, callerVars, appVars>>

\* this.memory.retrieve(query, now, k, { types })
Retrieve(query, now, k, types) ==
    /\ call' = [op |-> "retrieve", before |-> stream, query |-> query, now |-> now, k |-> k,
                types |-> types, out |-> retrieve(stream, query, now, k, types)]
    /\ UNCHANGED <<stream, llmVars, callerVars, appVars>>

\* this.memory.recent(n)
Recent(n) ==
    /\ call' = [op |-> "recent", before |-> stream, query |-> "", now |-> 0, k |-> n,
                types |-> [ty |-> "null", of |-> {}], out |-> recent(stream, n)]
    /\ UNCHANGED <<stream, llmVars, callerVars, appVars>>

NextMemory ==
    \/ \E text \in {"Coffee, coffee at the Cafe!", "Klaus studies at the library.", "I met Klaus at the cafe"},
             time \in {0, 180}, type \in {"observation", "reflection"} :
          Add(text, time, IF type = "reflection" THEN 8 ELSE 3, type)
    \/ \E query \in {"Who is at the Cafe?", "the"}, now \in {130}, k \in 1..2,
             types \in {[ty |-> "null", of |-> {}], [ty |-> "array", of |-> {"reflection"}]} :
          Retrieve(query, now, k, types)
    \/ \E n \in 0..(MaxRecords + 1) : Recent(n)

SpecMemory == InitClient /\ [][NextMemory]_vars

\* ------------------------------------------------------------------ the claims
\* The indices of the agents array in the order for...of visits them.
Roster == [k \in 1..NumAgents |-> k]

\* C1: in every interleaving of callers of chat() at most one engine call is in flight, and
\* the engine call of a task has started only when every task submitted before it has settled.
C1_OneInFlight ==
    /\ Cardinality(InFlight(tasks)) <= 1
    /\ \A i, j \in DOMAIN tasks : (i < j /\ tasks[j].st # "queued") => Settled(tasks, i)

\* C1 happens: a call failed, the next one is in flight and a third waits behind it.
C1_Witness ==
    \E i, j, k \in DOMAIN tasks :
        i < j /\ j < k /\ tasks[i].st = "rejected" /\ tasks[j].st = "inflight" /\ tasks[k].st = "queued"

\* C2: the engine calls start in the order of the chat() calls, each after the one before
\* it settled, and every caller is handed the outcome of the engine call made for its own request.
C2_FifoOwnResponse ==
    /\ \A k \in DOMAIN started : started[k] = k
    /\ \A k \in DOMAIN started : k > 1 => Settled(tasks, started[k - 1])
    /\ \A c \in Callers :
          calls[c].st \in {"resolved", "failed"} =>
              /\ calls[c].val.for \in DOMAIN tasks
              /\ tasks[calls[c].val.for].owner = c
              /\ (calls[c].st = "resolved") = (calls[c].val.out = "ok")

\* C2 happens: every caller has its outcome, the callers did not call in the order of
\* their names, and one of the calls failed.
C2_Witness ==
    /\ \A c \in Callers : calls[c].st \in {"resolved", "failed"}
    /\ tasks[1].owner = MaxCallers
    /\ \E c \in Callers : calls[c].st = "failed"
    /\ \E c \in Callers : calls[c].st = "resolved"

\* The requests submitted to the gateway and not yet resolved.
Pending == {i \in DOMAIN tasks : ~Settled(tasks, i)}

\* C3: whatever buttons are pressed, at most one request is submitted and not yet resolved.
C3_OnePending == Cardinality(Pending) <= 1

\* C4: whatever buttons are pressed, at most one Agent.step is in progress.
C4_OneStep == Cardinality({p \in DOMAIN acts : InStep(acts[p])}) <= 1

\* An engine call settles in this step.
Settles == last'.n # last.n

\* The agent whose method awaited the call that settles in this step, before and after.
Before == rosters[acts[last'.p].roster][acts[last'.p].i]
After == rosters'[acts[last'.p].roster][acts[last'.p].i]

\* The decision chatJSON hands to step in this step.
Handed == chatJSON(last'.o.content, NullDecision)

\* C5: whatever the gateway answers to an action request (text that does not parse, or a
\* value that is not what the schema asks for), the step that awaited the answer does not
\* fault, so that the tick goes on to the remaining agents.
C5_NoFaultOnAnswer ==
    [][(Settles /\ last'.kind = "action" /\ last'.o.ok) => acts'[last'.p].pc # "failed"]_vars

\* C6: an answer to an action request that parses but is no ActionDecision is handled as a
\* missing decision: the agent is Idle and its Memory Stream is as it was.
C6_InvalidAsMissing ==
    [][(Settles /\ last'.kind = "action" /\ last'.o.ok /\ ~ValidDecision(Handed))
          => (After.currentAction = Act("idle", "") /\ After.memory = Before.memory)]_vars

C8_TickStepsAll ==
    \A p \in DOMAIN acts :
        (acts[p].kind \in {"step", "run"} /\ ~InTick(acts[p])) => acts[p].stepped = Roster

\* C9: when Pause was pressed during a tick of the run loop, that tick ends only after every
\* agent of the roster has been stepped.
C9_PausedTickStepsAll ==
    \A p \in DOMAIN acts :
        (acts[p].kind = "run" /\ acts[p].paused /\ ~InTick(acts[p])) => acts[p].stepped = Roster

\* C10: a decision to interact posts a chat message if its target names an agent of this
\* tick's Perception and its utterance is not empty; if not, the agent is Idle afterwards and
\* no World has a new chat message or event.
C10_InteractOrIdle ==
    [][(Settles /\ last'.kind = "action" /\ last'.o.ok /\ Handed.ty = "object"
            /\ Handed.action = Str("interact") /\ acts[last'.p].mode = "fast")
          => LET act == acts[last'.p]
                 named == {j \in act.perc.others :
                              Handed.target.ty = "string" /\ AgentNames[j] = Trim(Handed.target.s)}
                 said == Handed.utterance.ty = "string" /\ Trim(Handed.utterance.s) # ""
             IN IF named # {} /\ said
                THEN Len(worlds'[act.w].chat[act.perc.place]) = Len(worlds[act.w].chat[act.perc.place]) + 1
                ELSE After.currentAction = Act("idle", "") /\ worlds' = worlds]_vars

\* The records of every Memory Stream there is, of discarded rosters too.
Streams == {<<r, i>> : r \in DOMAIN rosters, i \in AgentIx}
StreamOf(s) == rosters[s[1]][s[2]].memory

\* C11: whenever a step of an agent has returned, the agent has a destination exactly when
\* its state is the traveling one (walking, or going to a place).
C11_DestIffTraveling ==
    \A p \in DOMAIN acts :
        acts[p].pc = "sleep0" =>
            LET a == rosters[acts[p].roster][acts[p].i]
            IN (a.dest # NoPlace) <=> (a.currentAction.tag \in {"walking", "going to"})

\* C14: every record of every Memory Stream has an integer importance from 1 to 10 and one
\* of the types observation, action and reflection.
C14_ImportanceAndType ==
    \A s \in Streams : \A k \in DOMAIN StreamOf(s) :
        /\ StreamOf(s)[k].importance \in 1..10
        /\ StreamOf(s)[k].type \in {"observation", "action", "reflection"}

\* C14 happens: one stream holds a seed, a record the gateway gave importance 11 (stored
\* with 10), a record whose rating had no digits (stored with 3) and a reflection.
C14_Witness ==
    \E s \in Streams :
        /\ \E k \in DOMAIN StreamOf(s) : StreamOf(s)[k].id[1] = "seed"
        /\ \E k \in DOMAIN StreamOf(s) : StreamOf(s)[k].text = "big news" /\ StreamOf(s)[k].importance = 10
        /\ \E k \in DOMAIN StreamOf(s) : StreamOf(s)[k].id[1] = "mem" /\ StreamOf(s)[k].importance = 3
        /\ \E k \in DOMAIN StreamOf(s) : StreamOf(s)[k].type = "reflection"

\* C15: when the gateway answers a reflection request, whatever the answer, the
\* accumulator of the reflecting agent is 0 afterwards, and an answer that gives no
\* reflection leaves its Memory Stream as it was.
C15_ResetAfterReflection ==
    [][(Settles /\ last'.kind = "reflect" /\ last'.o.ok)
          => /\ After.acc = 0
             /\ chatJSON(last'.o.content, NullRefl).ty = "null" => After.memory = Before.memory]_vars

\* C16: in every Memory Stream the timestamps of the records do not decrease along the
\* order of insertion.
C16_Chronological ==
    \A s \in Streams : \A k, l \in DOMAIN StreamOf(s) :
        k < l => StreamOf(s)[k].time <= StreamOf(s)[l].time


\* C12: a movement step of an agent with a destination brings it strictly nearer to the
\* destination or leaves it at the destination with the destination cleared; it never takes
\* it farther away and never past the destination.
C12_NearerOrArrived ==
    [][\A i \in AgentIx :
          LET a == Town[i]
              b == rosters'[agents][i]
              P == Places[a.dest]
          IN (a.dest # NoPlace /\ b # a)
                => /\ \/ Dist2(b.x, b.y, P.x, P.y) < Dist2(a.x, a.y, P.x, P.y)
                      \/ b.dest = NoPlace /\ b.x = P.x /\ b.y = P.y
                   /\ Dist2(b.x, b.y, P.x, P.y) <= Dist2(a.x, a.y, P.x, P.y)
                   /\ Min(a.x, P.x) <= b.x /\ b.x <= Max(a.x, P.x)
                   /\ Min(a.y, P.y) <= b.y /\ b.y <= Max(a.y, P.y)]_vars

\* C12 happens: an agent less than one stride away from its destination, on its way.
C12_Witness ==
    \E i \in AgentIx :
        /\ Town[i].dest # NoPlace
        /\ Town[i].currentAction = Act("walking", "")
        /\ Dist2(Town[i].x, Town[i].y, Places[Town[i].dest].x, Places[Town[i].dest].y) \in 1..(Speed * Speed - 1)

\* C13: an agent that got a move decision for a place when it had no destination is going
\* there, and walking once it is stepped; as it is stepped tick after tick it keeps the
\* destination until the destination gets cleared, which happens, and then the agent stands
\* on the place.
C13_MoveArrives ==
    /\ \A i \in AgentIx : (Town[i].dest # NoPlace) ~> (Town[i].dest = NoPlace)
    /\ [][\A i \in AgentIx :
             /\ (Town[i].dest = NoPlace /\ rosters'[agents][i].dest # NoPlace)
                   => rosters'[agents][i].currentAction.tag = "going to"
             /\ (Town[i].dest # NoPlace /\ rosters'[agents][i] # Town[i])
                   => /\ rosters'[agents][i].currentAction.tag = "walking"
                      /\ rosters'[agents][i].dest \in {Town[i].dest, NoPlace}
             /\ (Town[i].dest # NoPlace /\ rosters'[agents][i].dest = NoPlace)
                   => /\ rosters'[agents][i].x = Places[Town[i].dest].x
                      /\ rosters'[agents][i].y = Places[Town[i].dest].y]_vars

\* C13 happens: an agent has walked to a place other than the one it started at and has no
\* destination any more.
C13_Witness ==
    \E i \in AgentIx, P \in PlaceIx :
        /\ P # StartAt[i]
        /\ Town[i].dest = NoPlace /\ Town[i].x = Places[P].x /\ Town[i].y = Places[P].y
        /\ Town[i].currentAction = Act("walking", "")

\* C19: the Perception of an agent never lists the agent itself, and lists another agent
\* exactly when the two resolve to the same place.
C19_NearbyIffSamePlace ==
    \A p \in DOMAIN acts :
        acts[p].perc # NoPerc =>
            LET me == acts[p].i
                all == rosters[acts[p].roster]
                at(j) == placeAt(all[j].x, all[j].y)
            IN /\ me \notin acts[p].perc.others
               /\ \A j \in AgentIx \ {me} :
                     j \in acts[p].perc.others <=> (at(me) # NoPlace /\ at(j) = at(me))

\* C19 happens: an agent that walked to the place of another one perceives it there.
C19_Witness ==
    \E p \in DOMAIN acts :
        /\ acts[p].perc # NoPerc
        /\ acts[p].perc.others # {}
        /\ acts[p].perc.place # StartAt[acts[p].i]

\* C17: the document frequency of a token never decreases; an add raises it by exactly one
\* for every distinct token of the new record and leaves every other token's count alone,
\* and a retrieve leaves every count alone.
C17_DfMonotone ==
    LET added == stream.records[Len(stream.records)]
        new == {tokenize(added.text)[i] : i \in DOMAIN tokenize(added.text)}
        seen == DOMAIN call.before.df \cup DOMAIN stream.df \cup STOPWORDS
    IN /\ \A t \in seen : DfOf(stream.df, t) >= DfOf(call.before.df, t)
       /\ call.op = "add" =>
             /\ new \subseteq DOMAIN stream.df
             /\ \A t \in seen : DfOf(stream.df, t) = DfOf(call.before.df, t) + (IF t \in new THEN 1 ELSE 0)
       /\ call.op = "retrieve" => stream.df = call.before.df

\* C17 happens: a record with the same token twice is added to a stream that has the token.
C17_Witness ==
    /\ call.op = "add"
    /\ stream.records[Len(stream.records)].text = "Coffee, coffee at the Cafe!"
    /\ DfOf(call.before.df, "coffee") = 1
    /\ DfOf(stream.df, "coffee") = 2
    /\ DfOf(stream.df, "cafe") = 3

\* C18: retrieve returns at most k entries, each a record of the stream that the type filter
\* lets through, in the order of non-increasing score, and no record the filter lets through
\* that was left out has a score greater than a returned one.
C18_TopK ==
    call.op = "retrieve" =>
        LET eligible == Scored(call.before, call.query, call.now, call.types)
            returned == {call.out[i].rec : i \in DOMAIN call.out}
        IN /\ Len(call.out) <= call.k
           /\ Cardinality(returned) = Len(call.out)
           /\ \A i \in DOMAIN call.out :
                 /\ \E n \in DOMAIN call.before.records : call.before.records[n] = call.out[i].rec
                 /\ call.types.ty # "null" => call.out[i].rec.type \in call.types.of
           /\ \A i, j \in DOMAIN call.out : i < j => call.out[i].score >= call.out[j].score
           /\ \A n \in DOMAIN eligible :
                 eligible[n].rec \notin returned =>
                    \A i \in DOMAIN call.out : eligible[n].score <= call.out[i].score

\* C18 happens: of three records two came back through a type filter, the last one added first.
C18_Witness ==
    /\ call.op = "retrieve"
    /\ Len(stream.records) = 3
    /\ call.types.ty = "array"
    /\ Len(call.out) = 2
    /\ call.out[1].rec = stream.records[3]
    /\ call.out[1].relevance > call.out[2].relevance
    /\ call.out[1].score > call.out[2].score

\* C20: the end of a tick takes from every place's chat exactly the entries more than 120
\* minutes older than the clock, in place and in order, and leaves the event log as it was;
\* so after a completed tick no chat entry is more than 120 minutes old.
C20_PruneOld ==
    [][(acts[1].pc = "decide" /\ acts'[1].pc = "done") =>
          \A p \in PlaceIx :
             \E was \in {worlds[world].chat[p]} : \E is \in {worlds'[world].chat[p]} :
                \E stay \in {{k \in DOMAIN was : simTime - was[k].time <= KeepMinutesDefault}} :
                   /\ Len(is) = Cardinality(stay)
                   /\ \A k \in stay : is[Cardinality({j \in stay : j <= k})] = was[k]
                   /\ \A k \in DOMAIN is : simTime' - is[k].time <= KeepMinutesDefault
                   /\ worlds'[world].log = worlds[world].log]_vars

\* C20 happens: a tick has ended, of two posts one is exactly 120 minutes old and still
\* there, and the other one is in the event log only.
C20_Witness ==
    /\ acts[1].pc = "done"
    /\ Len(worlds[world].log) = NumAgents + 2
    /\ \E p \in PlaceIx :
          /\ Len(worlds[world].chat[p]) = 1
          /\ worlds[world].chat[p][1].time = simTime - KeepMinutesDefault
    /\ Cardinality({p \in PlaceIx : worlds[world].chat[p] # <<>>}) = 1

\* C21: recent(n) returns the last n records of the stream in the order of insertion, all
\* of them when n is more than there are: min(n, number of records) records, for every
\* n >= 0.
C21_RecentLastN ==
    call.op = "recent" =>
        LET records == call.before.records
            m == Min(call.k, Len(records))
        IN /\ Len(call.out) = m
           /\ \A j \in 1..m : call.out[j] = records[Len(records) - m + j]

\* C30: the document frequency of every token is the number of records of the stream that
\* hold the token, so it is never more than the number of records; and a retrieve leaves
\* the records and the document frequencies as they were.
C30_DfCountsRecords ==
    LET held == [i \in DOMAIN stream.records |->
                    UNION {{w[j] : j \in DOMAIN w} : w \in {tokenize(stream.records[i].text)}}]
        tokens == UNION {held[i] : i \in DOMAIN held}
    IN /\ DOMAIN stream.df = tokens
       /\ \A t \in tokens \cup STOPWORDS :
             /\ DfOf(stream.df, t) = Cardinality({i \in DOMAIN held : t \in held[i]})
             /\ DfOf(stream.df, t) <= Len(stream.records)
       /\ call.op = "retrieve" => stream = call.before

\* C30 happens: three records, one token in all of them, one in two, one twice in one
\* record, and a retrieve that returned two of the records.
C30_Witness ==
    /\ Len(stream.records) = 3
    /\ DfOf(stream.df, "cafe") = 2
    /\ DfOf(stream.df, "klaus") = 2
    /\ DfOf(stream.df, "coffee") = 1
    /\ \E i \in 1..3 : stream.records[i].tf = [t \in {"coffee", "cafe"} |-> IF t = "coffee" THEN 2 ELSE 1]
    /\ call.op = "retrieve"
    /\ Len(call.out) = 2

\* C22: one step of an agent stores at most 3 records for the memories of its decision,
\* however many the decision holds. (One Step at a time: the steps of an agent have
\* different clock values, so the records of a step are the decision records of one time.)
C22_AtMostThree ==
    \A s \in Streams :
        \A k \in DOMAIN StreamOf(s) :
            Cardinality({l \in DOMAIN StreamOf(s) :
                            StreamOf(s)[l].id[1] = "mem" /\ StreamOf(s)[l].time = StreamOf(s)[k].time}) <= 3

\* C23: a step that returns when the gateway answers its action request, with a decision
\* or without a parseable one, has lowered the energy of its agent by 1, kept in 0..100
\* (the step touches the energy nowhere before that answer).
C23_EnergyEveryTick ==
    [][(Settles /\ last'.kind = "action" /\ acts'[last'.p].pc = "sleep0")
          => /\ After.energy = clamp(Before.energy - 1, 0, 100)
             /\ After.energy \in 0..100]_vars

C25_PostChat ==
    /\ call.op = "postChat" =>
          LET was == call.before
              is == worlds[world]
              P == call.placeId
          IN IF P \notin PlaceIx
             THEN is = was
             ELSE /\ is.chat[P] = Append(was.chat[P], [speaker |-> call.speaker, text |-> call.text,
                                                       time |-> call.time])
                  /\ is.log = Append(was.log, [time |-> call.time, place |-> P,
                                               text |-> <<call.speaker, ": ", call.text>>])
                  /\ \A q \in PlaceIx \ {P} : is.chat[q] = was.chat[q]
    /\ \A q \in PlaceIx : \A k \in DOMAIN worlds[world].chat[q] :
          \E l \in DOMAIN worlds[world].log :
              LET said == worlds[world].chat[q][k]
              IN worlds[world].log[l] = [time |-> said.time, place |-> q,
                                         text |-> <<said.speaker, ": ", said.text>>]

\* C25 happens: after posts at two places, a post without a placeId has changed nothing.
C25_Witness ==
    /\ call.op = "postChat" /\ call.placeId = NoPlace
    /\ worlds[world] = call.before
    /\ Cardinality({q \in PlaceIx : worlds[world].chat[q] # <<>>}) = 2
    /\ Len(worlds[world].log) = NumAgents + 2

\* C26: when the gateway has answered the plan request of an initialization the agent has a
\* plan, and when the answer is missing or is no DailyPlan (no object, blocks that are no
\* array, more than 10 blocks, a block that is no object) the plan is the fallback plan,
\* whatever the plan was before.
C26_PlanOrFallback ==
    [][(Settles /\ last'.kind = "plan" /\ last'.o.ok) =>
          LET obj == chatJSON(last'.o.content, NullPlan)
              valid == /\ obj.ty = "object" /\ obj.blocks.ty = "array"
                       /\ Len(obj.blocks.items) <= 10
                       /\ \A k \in DOMAIN obj.blocks.items : obj.blocks.items[k].ty = "object"
          IN /\ After.dailyPlan # NoPlan
             /\ ~valid => After.dailyPlan = FallbackPlan(AgentHome[acts[last'.p].i])]_vars

\* C27: when the gateway has answered a reflection request, every insight of the answer is
\* appended to the stream of the agent as a record of type reflection and importance 8, the
\* accumulator is 0 afterwards (the insights add nothing to it), and a summary update
\* string of the answer is the summary of the agent afterwards, also when the answer has
\* no insights.
C27_InsightsAndSummary ==
    [][(Settles /\ last'.kind = "reflect" /\ last'.o.ok /\ acts'[last'.p].pc # "failed") =>
          LET obj == chatJSON(last'.o.content, NullRefl)
              n == Len(Before.memory)
          IN /\ (obj.ty = "object" /\ obj.insights.ty = "array") =>
                   /\ Len(After.memory) = n + Len(obj.insights.items)
                   /\ SubSeq(After.memory, 1, n) = Before.memory
                   /\ \A k \in DOMAIN obj.insights.items :
                         /\ After.memory[n + k].type = "reflection"
                         /\ After.memory[n + k].importance = 8
                         /\ After.memory[n + k].text = "Insight: " \o obj.insights.items[k]
                   /\ After.acc = 0
             /\ (obj.ty = "object" /\ obj.summary_update.ty = "string" /\ obj.summary_update.s # "") =>
                   After.summary = obj.summary_update.s]_vars

\* C28: in every Memory Stream, of the roster in use and of the rosters a Reset discarded,
\* no two records have the same id, be they seed, decision or reflection records.
C28_UniqueIds ==
    \A s \in Streams : \A k, l \in DOMAIN StreamOf(s) :
        StreamOf(s)[k].id = StreamOf(s)[l].id => k = l

\* C28 happens: a stream of a roster built by a Reset holds seed records, four records of a
\* decision and the records of a reflection.
C28_Witness ==
    \E s \in Streams :
        /\ s[1] > 1
        /\ Cardinality({k \in DOMAIN StreamOf(s) : StreamOf(s)[k].id[1] = "seed"}) = NumSeeds
        /\ Cardinality({k \in DOMAIN StreamOf(s) : StreamOf(s)[k].id[1] = "mem"}) >= 4
        /\ Cardinality({k \in DOMAIN StreamOf(s) : StreamOf(s)[k].id[1] = "ref"}) >= 2

\* C29: whenever a step of an agent has returned, the reflection accumulator of the agent
\* is an integer from 0 to 25, below the threshold 26.
C29_BelowThreshold ==
    \A p \in DOMAIN acts :
        acts[p].pc = "sleep0" =>
            rosters[acts[p].roster][acts[p].i].acc \in 0..(ReflectThreshold - 1)

\* C31: a failed engine call rejects the caller of its own request and no other caller, and
\* every request, also one queued behind a failed one or submitted after it, has its engine
\* call started and settled, and its caller gets the outcome.
C31_FailureStaysLocal ==
    /\ [](\A c \in Callers :
            /\ calls[c].st = "failed" =>
                  tasks[calls[c].val.for].owner = c /\ tasks[calls[c].val.for].st = "rejected"
            /\ calls[c].st = "resolved" =>
                  tasks[calls[c].val.for].owner = c /\ tasks[calls[c].val.for].st = "fulfilled")
    /\ \A i \in Callers :
          (Len(tasks) >= i) ~> (Len(tasks) >= i /\ Settled(tasks, i) /\ \E k \in DOMAIN started : started[k] = i)
    /\ \A c \in Callers :
          (calls[c].st = "awaiting") ~> (calls[c].st \in {"resolved", "failed"})

\* C31 happens: the first engine call failed and its caller was rejected, and the callers of
\* the requests behind it, one queued before the failure, were resolved.
C31_Witness ==
    /\ Len(tasks) = MaxCallers
    /\ tasks[1].st = "rejected" /\ calls[tasks[1].owner].st = "failed"
    /\ \A i \in 2..MaxCallers : tasks[i].st = "fulfilled" /\ calls[tasks[i].owner].st = "resolved"

\* C32: whatever buttons are pressed, at most one run loop is active (started and not yet
\* returned), so that no two run loops are inside a tick at the same time.
C32_OneRunLoop ==
    Cardinality({p \in DOMAIN acts : acts[p].kind = "run" /\ acts[p].pc \notin {"done", "failed"}}) <= 1

\* C33: whenever the running flag is true a run loop is active (started and not returned,
\* neither normally nor by a fault), so that a further tick will follow.
C33_RunningHasLoop ==
    running => \E p \in DOMAIN acts : acts[p].kind = "run" /\ acts[p].pc \notin {"done", "failed"}

\* C34: whatever buttons are pressed, an agent is stepped only against the World that was
\* created together with its roster and with that roster as the other agents, so that
\* after a Reset no agent of the roster before it acts in the new World or at the clock
\* the Reset set.
C34_OwnWorld ==
    \A p \in DOMAIN acts :
        InStep(acts[p]) => acts[p].w = acts[p].roster /\ acts[p].all = acts[p].roster

====
